---- MODULE Spec2Model ----
(***************************************************************************)
(* Model of "Composite Actions/MCPAgent/mcp.py": a FastAPI application     *)
(* holding one module-level list of prompt entries (TLC_ENGINEERING) and   *)
(* serving it through two GET routes, /api/quotes (JSON) and / (HTML).     *)
(*                                                                         *)
(* Strings are sequences of characters; an HTML document is a sequence of  *)
(* tokens, a token being either one character of an entry's text or one    *)
(* fixed piece of the template.  Python objects live in a heap addressed   *)
(* by reference, because get_quotes returns the list object itself.        *)
(* Sync endpoints run in FastAPI's thread pool, so the handlers of         *)
(* different requests interleave step by step.                             *)
(***************************************************************************)
EXTENDS Integers, Sequences, FiniteSets, TLC

\* ---------------------------------------------------------------- bounds
MaxId == 2          \* ids are drawn from 1..MaxId; a catalog has at most MaxId entries
MaxRequests == 2    \* requests handled concurrently
MaxCallerOps == 1   \* mutations an in-process caller makes

\* Entry texts: an ordinary one, one shaped like the '&' of "Precise &
\* Structured" in the literal of mcp.py:8, and one shaped like a tag.
Texts == {<<"a">>, <<"a", "&", "a">>, <<"<", "b", ">">>}

\* A dict {"id": ..., "text": ...} of the catalog literal.
PromptEntry == [id : 1..MaxId, text : Texts]

RECURSIVE SeqsUpTo(_, _)
SeqsUpTo(S, n) ==
    IF n = 0 THEN {<<>>}
    ELSE LET shorter == SeqsUpTo(S, n - 1)
         IN  shorter \cup {Append(s, c) : s \in {t \in shorter : Len(t) = n - 1}, c \in S}

\* The catalogs a literal like mcp.py:7-9 may hold: ids pairwise distinct
\* and positive, texts non-empty, any order, the empty list included.
Catalogs ==
    {c \in SeqsUpTo(PromptEntry, MaxId) :
        \A i, j \in 1..Len(c) : i # j => c[i].id # c[j].id}

\* ------------------------------------------------------------------ heap
\* The name TLC_ENGINEERING is bound once, to one list object.
TLC_ENGINEERING == "list0"

NoRef == "None"

\* ---------------------------------------------------------------- routes
\* Paths a client asks for: the two decorated endpoints, one of the
\* framework's documentation routes, a route with a trailing slash and a
\* path nothing is registered under.  app = FastAPI() is built with its
\* defaults, so besides the two decorated endpoints the application carries
\* the framework's documentation routes, and the router redirects a path
\* that only differs from a route by trailing slashes.
Paths == {"/api/quotes", "/", "/docs", "/api/quotes/", "/unknown"}

AppRoutes == {"/api/quotes", "/"}

FrameworkRoutes == {"/openapi.json", "/docs", "/docs/oauth2-redirect", "/redoc"}

\* rstrip("/") of the paths of the model that end in a slash.
StripSlashes(p) == IF p = "/api/quotes/" THEN "/api/quotes" ELSE p

\* A variant of Route in which the catch-all falls through to the data
\* endpoint.
RouteCatchAll(p) ==
    CASE p = "/api/quotes" -> "get_quotes"
      [] p = "/" -> "devotional_home"
      [] p \in FrameworkRoutes -> "framework"
      [] OTHER -> "get_quotes"

\* Route dispatch of the application object: which endpoint answers p.
Route(p) ==
    CASE p = "/api/quotes" -> "get_quotes"
      [] p = "/" -> "devotional_home"
      [] p \in FrameworkRoutes -> "framework"
      [] p # "/" /\ StripSlashes(p) # p
           /\ StripSlashes(p) \in (AppRoutes \cup FrameworkRoutes) -> "redirect_slashes"
      [] OTHER -> "not_found"

\* -------------------------------------------------------------- template
\* The fixed text of the f-string before and after {html_quotes}.
TemplatePrefix == <<"<html>", "<head>", "<body>", "<header>", "<div.container>",
                    "<div.card>", "<h2>", "<ul>">>

TemplateSuffix == <<"</ul>", "</div>", "</div>", "<footer>", "</body>", "</html>">>

\* f"<li>{q['text']}</li>": the text is interpolated as it is.
ListItem(q) == <<"<li>">> \o q.text \o <<"</li>">>

\* A variant of Join that puts a separator between the fragments.
RECURSIVE JoinWithSeparator(_)
JoinWithSeparator(frags) ==
    IF frags = <<>> THEN <<>>
    ELSE IF Len(frags) = 1 THEN Head(frags)
    ELSE Head(frags) \o <<",">> \o JoinWithSeparator(Tail(frags))

\* "".join(fragments)
RECURSIVE Join(_)
Join(frags) ==
    IF frags = <<>> THEN <<>> ELSE Head(frags) \o Join(Tail(frags))

\* A variant of Template that fails on an empty list block.
TemplateNonEmptyOnly(html_quotes) ==
    IF html_quotes = <<>> THEN <<>>
    ELSE TemplatePrefix \o html_quotes \o TemplateSuffix

\* The f-string of devotional_home with html_quotes interpolated.
Template(html_quotes) == TemplatePrefix \o html_quotes \o TemplateSuffix

\* A variant of EncodeEntry that renumbers every entry to 1.
EncodeEntryRenumbering(q) == [id |-> 1, text |-> q.text]

\* The response encoder copies a dict key by key into a new JSON object.
EncodeEntry(q) == [id |-> q["id"], text |-> q["text"]]

\* ----------------------------------------------------------------- state
VARIABLES
    heap,        \* reference -> the list object's current elements
    catalog0,    \* the elements the catalog literal was built with
    req,         \* per request slot: the handler's position and locals
    callerRef,   \* reference held by an in-process caller of get_quotes
    callerOps    \* number of mutations the caller has made

vars == <<heap, catalog0, req, callerRef, callerOps>>

Requests == 1..MaxRequests

IdleRequest ==
    [pc |-> "idle", path |-> "", ret |-> NoRef, i |-> 0, acc |-> <<>>,
     html_quotes |-> <<>>, status |-> 0, kind |-> "none",
     json |-> <<>>, html |-> <<>>, sent |-> 0, overlap |-> FALSE]

Init ==
    /\ \E c \in Catalogs : heap = [ref \in {TLC_ENGINEERING} |-> c] /\ catalog0 = c
    /\ req = [r \in Requests |-> IdleRequest]
    /\ callerRef = NoRef
    /\ callerOps = 0

\* ------------------------------------------------------------- responses
Respond(r, status, kind, json, html) ==
    req' = [req EXCEPT ![r].pc = "done", ![r].status = status, ![r].kind = kind,
                       ![r].json = json, ![r].html = html,
                       ![r].sent = req[r].sent + 1]

InFlight(r) == req[r].pc \notin {"idle", "done"}

\* A request for path p arrives and is dispatched to its endpoint.  The
\* overlap flag records that the request shared some of its handling time
\* with another request.
Receive(r, p) ==
    /\ req[r].pc = "idle"
    /\ req' = [s \in Requests |->
                 IF s = r
                 THEN [req[r] EXCEPT !.pc = Route(p), !.path = p, !.i = 1,
                                     !.overlap = \E o \in Requests \ {r} : InFlight(o)]
                 ELSE IF InFlight(s) THEN [req[s] EXCEPT !.overlap = TRUE]
                 ELSE req[s]]
    /\ UNCHANGED <<heap, catalog0, callerRef, callerOps>>

\* A variant of get_quotes that consumes the first entry of the catalog.
get_quotesConsuming(r) ==
    /\ req[r].pc = "get_quotes"
    /\ req' = [req EXCEPT ![r].pc = "serialize_response", ![r].ret = TLC_ENGINEERING]
    /\ heap' = [heap EXCEPT ![TLC_ENGINEERING] =
                   IF heap[TLC_ENGINEERING] = <<>> THEN <<>> ELSE Tail(heap[TLC_ENGINEERING])]
    /\ UNCHANGED <<catalog0, callerRef, callerOps>>

\* get_quotes: return TLC_ENGINEERING (the list object, not a copy).
get_quotes(r) ==
    /\ req[r].pc = "get_quotes"
    /\ req' = [req EXCEPT ![r].pc = "serialize_response", ![r].ret = TLC_ENGINEERING]
    /\ UNCHANGED <<heap, catalog0, callerRef, callerOps>>

\* The framework encodes the returned list, one element per step.
SerializeEntry(r) ==
    /\ req[r].pc = "serialize_response"
    /\ req[r].i <= Len(heap[req[r].ret])
    /\ req' = [req EXCEPT ![r].acc = Append(req[r].acc, EncodeEntry(heap[req[r].ret][req[r].i])),
                          ![r].i = req[r].i + 1]
    /\ UNCHANGED <<heap, catalog0, callerRef, callerOps>>

\* A variant of SendJSON that sends the first page of one entry only.
SendJSONPaginated(r) ==
    /\ req[r].pc = "serialize_response"
    /\ req[r].i > Len(heap[req[r].ret])
    /\ Respond(r, 200, "json",
               IF Len(req[r].acc) <= 1 THEN req[r].acc ELSE <<req[r].acc[1]>>, <<>>)
    /\ UNCHANGED <<heap, catalog0, callerRef, callerOps>>

\* The encoded list is sent as the JSON body, status 200.
SendJSON(r) ==
    /\ req[r].pc = "serialize_response"
    /\ req[r].i > Len(heap[req[r].ret])
    /\ Respond(r, 200, "json", req[r].acc, <<>>)
    /\ UNCHANGED <<heap, catalog0, callerRef, callerOps>>

\* A variant of ListComprehension that pops each entry off the catalog as
\* it renders it.
ListComprehensionDraining(r) ==
    /\ req[r].pc = "devotional_home"
    /\ heap[TLC_ENGINEERING] # <<>>
    /\ req' = [req EXCEPT ![r].acc = Append(req[r].acc, ListItem(Head(heap[TLC_ENGINEERING])))]
    /\ heap' = [heap EXCEPT ![TLC_ENGINEERING] = Tail(heap[TLC_ENGINEERING])]
    /\ UNCHANGED <<catalog0, callerRef, callerOps>>

\* A variant of ListComprehension that collects the fragments in one list
\* shared by all requests (kept in the first request slot).
ListComprehensionShared(r) ==
    /\ req[r].pc = "devotional_home"
    /\ req[r].i <= Len(heap[TLC_ENGINEERING])
    /\ req' = [s \in Requests |->
                 LET grown == IF s = 1
                              THEN [req[s] EXCEPT !.acc = Append(req[1].acc,
                                        ListItem(heap[TLC_ENGINEERING][req[r].i]))]
                              ELSE req[s]
                 IN  IF s = r THEN [grown EXCEPT !.i = req[r].i + 1] ELSE grown]
    /\ UNCHANGED <<heap, catalog0, callerRef, callerOps>>

\* One iteration of the list comprehension of devotional_home.
ListComprehension(r) ==
    /\ req[r].pc = "devotional_home"
    /\ req[r].i <= Len(heap[TLC_ENGINEERING])
    /\ req' = [req EXCEPT ![r].acc = Append(req[r].acc, ListItem(heap[TLC_ENGINEERING][req[r].i])),
                          ![r].i = req[r].i + 1]
    /\ UNCHANGED <<heap, catalog0, callerRef, callerOps>>

\* The comprehension is exhausted; html_quotes = "".join(...).
JoinFragments(r) ==
    /\ req[r].pc = "devotional_home"
    /\ req[r].i > Len(heap[TLC_ENGINEERING])
    /\ req' = [req EXCEPT ![r].pc = "template", ![r].html_quotes = Join(req[r].acc)]
    /\ UNCHANGED <<heap, catalog0, callerRef, callerOps>>

\* devotional_home returns the f-string; HTMLResponse sends it, status 200.
devotional_home(r) ==
    /\ req[r].pc = "template"
    /\ Respond(r, 200, "html", <<>>, Template(req[r].html_quotes))
    /\ UNCHANGED <<heap, catalog0, callerRef, callerOps>>

\* A documentation route of the framework answers; it never reads the catalog.
FrameworkRoute(r) ==
    /\ req[r].pc = "framework"
    /\ Respond(r, 200, "framework", <<>>, <<>>)
    /\ UNCHANGED <<heap, catalog0, callerRef, callerOps>>

\* The router redirects to the path without its trailing slashes.
RedirectSlashes(r) ==
    /\ req[r].pc = "redirect_slashes"
    /\ Respond(r, 307, "redirect", <<>>, <<>>)
    /\ UNCHANGED <<heap, catalog0, callerRef, callerOps>>

\* No route matches: the router's default handler answers 404.
NotFound(r) ==
    /\ req[r].pc = "not_found"
    /\ Respond(r, 404, "detail", <<>>, <<>>)
    /\ UNCHANGED <<heap, catalog0, callerRef, callerOps>>

\* ---------------------------------------------------- in-process caller
\* get_quotes is an ordinary module-level function: code in the same process
\* can call it and keep what it returns, which is the list object itself.
\* Dicts are modelled by value, so rewriting a field of an element is a
\* replacement of that element of the list.
CallerEntries == {[id |-> MaxId, text |-> <<"a">>]}

\* r = get_quotes()
CallerCall ==
    /\ callerRef = NoRef
    /\ callerRef' = TLC_ENGINEERING
    /\ UNCHANGED <<heap, catalog0, req, callerOps>>

\* r.append(e)
CallerAppend(e) ==
    /\ callerRef # NoRef
    /\ callerOps < MaxCallerOps
    /\ heap' = [heap EXCEPT ![callerRef] = Append(heap[callerRef], e)]
    /\ callerOps' = callerOps + 1
    /\ UNCHANGED <<catalog0, req, callerRef>>

\* r.pop()
CallerPop ==
    /\ callerRef # NoRef
    /\ callerOps < MaxCallerOps
    /\ heap[callerRef] # <<>>
    /\ heap' = [heap EXCEPT ![callerRef] = SubSeq(heap[callerRef], 1, Len(heap[callerRef]) - 1)]
    /\ callerOps' = callerOps + 1
    /\ UNCHANGED <<catalog0, req, callerRef>>

\* r[k]["text"] = e["text"]
CallerRewrite(k, e) ==
    /\ callerRef # NoRef
    /\ callerOps < MaxCallerOps
    /\ k \in 1..Len(heap[callerRef])
    /\ heap[callerRef][k].text # e.text
    /\ heap' = [heap EXCEPT ![callerRef][k].text = e.text]
    /\ callerOps' = callerOps + 1
    /\ UNCHANGED <<catalog0, req, callerRef>>

\* -------------------------------------------------------- specifications
HandleRequests ==
    \/ \E r \in Requests, p \in Paths : Receive(r, p)
    \/ \E r \in Requests : get_quotes(r)
    \/ \E r \in Requests : SerializeEntry(r)
    \/ \E r \in Requests : SendJSON(r)
    \/ \E r \in Requests : ListComprehension(r)
    \/ \E r \in Requests : JoinFragments(r)
    \/ \E r \in Requests : devotional_home(r)
    \/ \E r \in Requests : FrameworkRoute(r)
    \/ \E r \in Requests : RedirectSlashes(r)
    \/ \E r \in Requests : NotFound(r)

Next == HandleRequests

\* The application serving HTTP requests, which is all mcp.py does itself.
Spec == Init /\ [][Next]_vars

NextCaller ==
    \/ HandleRequests
    \/ CallerCall
    \/ \E e \in CallerEntries : CallerAppend(e)
    \/ CallerPop
    \/ \E k \in 1..(MaxId + MaxCallerOps), e \in CallerEntries : CallerRewrite(k, e)

\* The application together with in-process code that calls get_quotes.
SpecCaller == Init /\ [][NextCaller]_vars


\* ------------------------------------------------------ reading a response
Catalog == heap[TLC_ENGINEERING]

Done(r, p) == req[r].pc = "done" /\ req[r].path = p

Markup == {"<", ">", "&"}

\* The escaped form of one character and of a text.
EscapeChar(c) ==
    CASE c = "&" -> "&amp;"
      [] c = "<" -> "&lt;"
      [] c = ">" -> "&gt;"
      [] OTHER -> c

Escape(text) == [k \in 1..Len(text) |-> EscapeChar(text[k])]

HasToken(s, t) == \E k \in 1..Len(s) : s[k] = t

FirstToken(s, t) == CHOOSE k \in 1..Len(s) : s[k] = t /\ \A j \in 1..(k - 1) : s[j] # t

\* The contents of the list items of a document, in document order.
RECURSIVE ListItemsOf(_)
ListItemsOf(doc) ==
    IF ~HasToken(doc, "<li>") THEN <<>>
    ELSE LET rest == SubSeq(doc, FirstToken(doc, "<li>") + 1, Len(doc))
         IN  IF ~HasToken(rest, "</li>") THEN <<rest>>
             ELSE LET close == FirstToken(rest, "</li>")
                  IN  <<SubSeq(rest, 1, close - 1)>>
                        \o ListItemsOf(SubSeq(rest, close + 1, Len(rest)))

RECURSIVE TotalLen(_)
TotalLen(items) == IF items = <<>> THEN 0 ELSE Len(Head(items)) + TotalLen(Tail(items))

IsPrefixOf(s, doc) == Len(s) <= Len(doc) /\ SubSeq(doc, 1, Len(s)) = s

IsSuffixOf(s, doc) ==
    Len(s) <= Len(doc) /\ SubSeq(doc, Len(doc) - Len(s) + 1, Len(doc)) = s

\* ---------------------------------------------------------------- claims

\* C1: a GET /api/quotes request answers 200 with a sequence as long as the
\* catalog whose i-th element has the id and the raw text of the i-th
\* catalog entry; nothing is dropped, added, reordered or paginated.
C1_DataRouteReturnsCatalog ==
    \A r \in Requests :
        Done(r, "/api/quotes") =>
            /\ req[r].status = 200
            /\ req[r].kind = "json"
            /\ Len(req[r].json) = Len(Catalog)
            /\ \A k \in 1..Len(Catalog) :
                   /\ req[r].json[k].id = Catalog[k].id
                   /\ req[r].json[k].text = Catalog[k].text

C1_Witness ==
    \E r \in Requests :
        /\ Done(r, "/api/quotes")
        /\ Len(Catalog) >= 2
        /\ \E k \in 1..Len(Catalog) : \E j \in 1..Len(Catalog[k].text) :
               Catalog[k].text[j] \in Markup

\* C2: in the document of GET / every entry's text appears in its list item
\* in escaped form, and no raw '<', '>' or '&' of a text is in the document.
C2_PageEscapesMarkup ==
    \A r \in Requests :
        Done(r, "/") =>
            /\ \A k \in 1..Len(req[r].html) : req[r].html[k] \notin Markup
            /\ Len(ListItemsOf(req[r].html)) = Len(Catalog)
            /\ \A k \in 1..Len(Catalog) :
                   ListItemsOf(req[r].html)[k] = Escape(Catalog[k].text)

\* C3: whatever requests have been handled, the catalog holds the entries it
\* was built with, in the same order.
C3_CatalogUnchanged == heap[TLC_ENGINEERING] = catalog0

C3_Witness ==
    /\ catalog0 # <<>>
    /\ \E r1, r2 \in Requests :
           /\ Done(r1, "/api/quotes")
           /\ Done(r2, "/")

\* C4: nothing a caller does to the value it got from the data-route read
\* changes the shared catalog or what a later request is answered with.
C4_NoMutableReference ==
    /\ callerRef # NoRef => Catalog = catalog0
    /\ \A r \in Requests :
           /\ Done(r, "/api/quotes") => Len(req[r].json) = Len(catalog0)
           /\ Done(r, "/") => Len(ListItemsOf(req[r].html)) = Len(catalog0)

\* C5: two answered requests for the same route have identical responses,
\* whatever was served before or between them.
C5_Deterministic ==
    \A r1, r2 \in Requests :
        (/\ req[r1].pc = "done" /\ req[r2].pc = "done"
         /\ req[r1].path = req[r2].path
         /\ req[r1].path \in AppRoutes) =>
            /\ req[r1].status = req[r2].status
            /\ req[r1].kind = req[r2].kind
            /\ req[r1].json = req[r2].json
            /\ req[r1].html = req[r2].html

C5_Witness ==
    /\ Len(catalog0) >= 2
    /\ \E r1, r2 \in Requests :
           /\ r1 # r2
           /\ \/ Done(r1, "/api/quotes") /\ Done(r2, "/api/quotes")
              \/ Done(r1, "/") /\ Done(r2, "/")

\* C6: with an empty catalog the data route answers 200 with an empty
\* sequence and the page route answers 200 with the whole template and no
\* list item; no request is answered with a server error.
C6_EmptyCatalog ==
    catalog0 = <<>> =>
        \A r \in Requests :
            /\ Done(r, "/api/quotes") =>
                   req[r].status = 200 /\ req[r].kind = "json" /\ req[r].json = <<>>
            /\ Done(r, "/") =>
                   /\ req[r].status = 200 /\ req[r].kind = "html"
                   /\ IsPrefixOf(TemplatePrefix, req[r].html)
                   /\ IsSuffixOf(TemplateSuffix, req[r].html)
                   /\ Len(req[r].html) = Len(TemplatePrefix) + Len(TemplateSuffix)
                   /\ ~HasToken(req[r].html, "<li>")
            /\ req[r].status < 500

C6_Witness ==
    /\ catalog0 = <<>>
    /\ \E r1, r2 \in Requests : Done(r1, "/api/quotes") /\ Done(r2, "/")

\* C7: the document of GET / is the template prefix, then one list item per
\* catalog entry, the i-th holding the text of the i-th entry (as it is or
\* escaped), with nothing between the items, then the template suffix.
C7_PageStructure ==
    \A r \in Requests :
        Done(r, "/") =>
            LET doc == req[r].html
                items == ListItemsOf(doc)
            IN  /\ IsPrefixOf(TemplatePrefix, doc)
                /\ IsSuffixOf(TemplateSuffix, doc)
                /\ Len(items) = Len(Catalog)
                /\ \A k \in 1..Len(Catalog) :
                       items[k] \in {Catalog[k].text, Escape(Catalog[k].text)}
                /\ Len(doc) = Len(TemplatePrefix) + Len(TemplateSuffix)
                                + TotalLen(items) + 2 * Len(items)

C7_Witness ==
    \E r \in Requests :
        /\ Done(r, "/")
        /\ Len(Catalog) >= 2
        /\ Catalog[1].id > Catalog[2].id
        /\ Catalog[1].text # Catalog[2].text

\* C8: the catalog's ids are pairwise distinct positive integers and its
\* texts non-empty, and the ids of a GET /api/quotes response are pairwise
\* distinct and equal, position by position, to the ids the catalog was
\* built with.
C8_IdsUniqueAndStable ==
    /\ \A k \in 1..Len(Catalog) :
           /\ Catalog[k].id \in Nat \ {0}
           /\ Catalog[k].text # <<>>
           /\ \A j \in 1..Len(Catalog) : j # k => Catalog[j].id # Catalog[k].id
    /\ \A r \in Requests :
           Done(r, "/api/quotes") =>
               /\ \A k, j \in 1..Len(req[r].json) :
                      j # k => req[r].json[j].id # req[r].json[k].id
               /\ \A k \in 1..Len(req[r].json) :
                      k <= Len(catalog0) /\ req[r].json[k].id = catalog0[k].id

C8_Witness ==
    \E r \in Requests :
        /\ Done(r, "/api/quotes")
        /\ Len(req[r].json) >= 2
        /\ req[r].json[1].id = 2

\* The response a request gets when it is the only one being handled.
RenderPage(catalog) ==
    Template(Join([k \in 1..Len(catalog) |-> ListItem(catalog[k])]))

EncodeList(catalog) == [k \in 1..Len(catalog) |-> EncodeEntry(catalog[k])]

\* C9: under every interleaving of the handlers' steps each request gets the
\* response it would get if served alone, and a handler that is under way
\* has built exactly what it would have built alone up to that step.
C9_ConcurrentAsAlone ==
    \A r \in Requests :
        /\ Done(r, "/api/quotes") => req[r].status = 200 /\ req[r].json = EncodeList(catalog0)
        /\ Done(r, "/") => req[r].status = 200 /\ req[r].html = RenderPage(catalog0)
        /\ req[r].pc = "serialize_response" =>
               req[r].acc = SubSeq(EncodeList(catalog0), 1, req[r].i - 1)
        /\ req[r].pc = "devotional_home" =>
               req[r].acc = [k \in 1..(req[r].i - 1) |-> ListItem(catalog0[k])]

C9_Witness ==
    /\ Len(catalog0) >= 2
    /\ \E r1, r2 \in Requests :
           /\ Done(r1, "/api/quotes") /\ req[r1].overlap
           /\ Done(r2, "/") /\ req[r2].overlap

\* C10 as stated: only GET /api/quotes and GET / answer 200, every other
\* path answers 404, the catalog is unchanged and each request has exactly
\* one response.
C10_OnlyTwoRoutes ==
    /\ Catalog = catalog0
    /\ \A r \in Requests :
           /\ req[r].pc = "done" =>
                  /\ req[r].sent = 1
                  /\ req[r].path \in AppRoutes => req[r].status = 200
                  /\ req[r].path \notin AppRoutes => req[r].status = 404
           /\ req[r].pc # "done" => req[r].sent = 0

\* C10 as amended: GET /api/quotes, GET / and the framework's documentation
\* routes answer 200, a route followed by a trailing slash answers with a
\* 307 redirect, every other path answers 404; the catalog is unchanged and
\* each request has exactly one response.
C10_RoutesServed ==
    /\ Catalog = catalog0
    /\ \A r \in Requests :
           /\ req[r].pc = "done" =>
                  /\ req[r].sent = 1
                  /\ req[r].path \in {"/api/quotes", "/"} => req[r].status = 200
                  /\ req[r].path \in {"/openapi.json", "/docs", "/docs/oauth2-redirect",
                                      "/redoc"} => req[r].status = 200
                  /\ req[r].path = "/api/quotes/" => req[r].status = 307
                  /\ req[r].path = "/unknown" => req[r].status = 404
           /\ req[r].pc # "done" => req[r].sent = 0

C10_Witness ==
    \E r1, r2 \in Requests :
        /\ Done(r1, "/unknown") /\ req[r1].status = 404
        /\ Done(r2, "/docs") /\ req[r2].status = 200

====
